---- MODULE Spec2Model ----
(***************************************************************************)
(* The chaos/tree particle animation: App.toggleState, the per-frame       *)
(* callbacks of Ornaments and TreeFoliage, and the particle generators.    *)
(*                                                                         *)
(* Numbers are exact rationals [n |-> numerator, d |-> denominator > 0] in *)
(* lowest terms: the arithmetic of the source is modelled without the      *)
(* rounding of IEEE doubles.                                               *)
(***************************************************************************)
EXTENDS Integers, Sequences, FiniteSets, TLC

(* ---------------------------------------------------------------------- *)
(* Exact rational arithmetic                                              *)
(* ---------------------------------------------------------------------- *)
Abs(x) == IF x < 0 THEN -x ELSE x

RECURSIVE GCD(_, _)
GCD(a, b) == IF b = 0 THEN a ELSE GCD(b, a % b)

Q(num, den) ==
  LET s == IF den < 0 THEN -1 ELSE 1
      g == GCD(Abs(num), Abs(den))
  IN  [n |-> (s * num) \div g, d |-> (s * den) \div g]

Zero == Q(0, 1)
One  == Q(1, 1)

RNeg(a) == [n |-> -a.n, d |-> a.d]

RAdd(a, b) ==
  LET g == GCD(a.d, b.d)
      l == (a.d \div g) * b.d
  IN  Q(a.n * (l \div a.d) + b.n * (l \div b.d), l)

RSub(a, b) == RAdd(a, RNeg(b))

RMul(a, b) ==
  LET g1 == GCD(Abs(a.n), b.d)
      g2 == GCD(Abs(b.n), a.d)
  IN  IF a.n = 0 \/ b.n = 0 THEN Zero
      ELSE [n |-> (a.n \div g1) * (b.n \div g2), d |-> (a.d \div g2) * (b.d \div g1)]

RLess(a, b) == RSub(a, b).n < 0
RLeq(a, b)  == RSub(a, b).n <= 0
RAbs(a)     == [n |-> Abs(a.n), d |-> a.d]
RMin(a, b)  == IF RLess(b, a) THEN b ELSE a
RMax(a, b)  == IF RLess(a, b) THEN b ELSE a

(* THREE.MathUtils.lerp(x, y, t) = (1 - t) * x + t * y: no clamping of t. *)
(* Faulty variant of lerp: the two ends swapped. *)
lerpBackwards(x, y, t) == RAdd(RMul(RSub(One, t), y), RMul(t, x))

lerp(x, y, t) == RAdd(RMul(RSub(One, t), x), RMul(t, y))

(* THREE.MathUtils.clamp(value, min, max) = max(min, min(max, value)). *)
clamp(value, lo, hi) == RMax(lo, RMin(hi, value))

(* ---------------------------------------------------------------------- *)
(* Program constants                                                      *)
(* ---------------------------------------------------------------------- *)
BALL_COUNT  == 200
BOX_COUNT   == 50
LIGHT_COUNT == 300
COUNT       == 15000
TREE_HEIGHT == 16
TREE_RADIUS == 6

OrnamentsRate == Q(8, 10)      \* delta * 0.8
FoliageRate   == Q(15, 10)     \* delta * 1.5

(* ---------------------------------------------------------------------- *)
(* Bounds of the model                                                    *)
(* ---------------------------------------------------------------------- *)
Tracked      == 1    \* particle records followed per population
MaxFrames    == 4    \* frames of a session with arbitrary deltas
MaxRunFrames == 9    \* frames of a session whose deltas are all one second
MaxCount     == 2    \* largest count handed to a generator

(* Frame deltas in seconds: none, a short frame, the delta at which        *)
(* delta * 0.8 = 1, and a long stall (a background tab coming back).       *)
DtSet == {Zero, Q(1, 2), Q(5, 4), Q(3, 1)}

(* ---------------------------------------------------------------------- *)
(* Math.random() draws and the exact values of the functions applied to   *)
(* them.  The draws are taken from grids on which sqrt, cbrt, cos and sin  *)
(* are rational.                                                          *)
(* ---------------------------------------------------------------------- *)
Roots == {Q(k, 20) : k \in 0..20}

(* Math.sqrt and Math.cbrt on the squares and cubes of Roots. *)
Sqrt(x) == CHOOSE s \in Roots : RMul(s, s) = x
Cbrt(x) == CHOOSE s \in Roots : RMul(s, RMul(s, s)) = x

(* Math.floor of a non-negative number. *)
Floor(x) == x.n \div x.d

(* cos and sin of q * PI, q a multiple of 1/2. *)
CosPi(q) ==
  LET k == ((2 * q.n) \div q.d) % 4
  IN  CASE k = 0 -> One [] k = 2 -> RNeg(One) [] OTHER -> Zero
SinPi(q) ==
  LET k == ((2 * q.n) \div q.d) % 4
  IN  CASE k = 1 -> One [] k = 3 -> RNeg(One) [] OTHER -> Zero

(* One particle's draws, in the order the generators call Math.random():   *)
(* u, v (direction in the chaos sphere), rc (chaos radius), h (hNorm),     *)
(* a (angle), rot (the three Euler draws, one value here), pal (palette),  *)
(* rcb (foliage chaos radius), rs (foliage radial factor), rnd (foliage    *)
(* aRandom).                                                               *)
DrawSet ==
  [u : {Q(1, 4)}, v : {Q(1, 10)}, rc : {Q(1, 2)}, rcb : {Q(1, 8)},
   h : {Zero, Q(1, 4), Q(1, 2), Q(3, 4)}, a : {Zero, Q(1, 4)},
   rot : {Q(1, 2)}, pal : {Zero, Q(3, 4)},
   rs : {Q(1, 4), Q(81, 100)}, rnd : {Q(1, 2)}]

Types == {"ball", "box", "light"}

palette == <<"#D4AF37", "#800000", "#C0C0C0", "#B8860B">>

(* Point on the sphere of radius r around (0, 10, 0): theta = 2*PI*u,      *)
(* phi = acos(2v - 1), so cos(phi) = 2v - 1 and sin(phi) = sqrt(1 - cos^2). *)
chaosPoint(r, u, v) ==
  LET cosPhi   == RSub(RMul(Q(2, 1), v), One)
      sinPhi   == Sqrt(RSub(One, RMul(cosPhi, cosPhi)))
      cosTheta == CosPi(RMul(Q(2, 1), u))
      sinTheta == SinPi(RMul(Q(2, 1), u))
  IN  [x |-> RMul(r, RMul(sinPhi, cosTheta)),
       y |-> RAdd(RMul(r, RMul(sinPhi, sinTheta)), Q(10, 1)),
       z |-> RMul(r, cosPhi)]

(* Faulty variant of rFinalOrnament: lights pushed out by 1.5. *)
rFinalWide(type, rCone) == RMul(rCone, IF type = "light" THEN Q(15, 10) ELSE Q(9, 10))

(* rCone * (type === 'light' ? 1.05 : 0.9) *)
rFinalOrnament(type, rCone) == RMul(rCone, IF type = "light" THEN Q(105, 100) ELSE Q(9, 10))

(* Math.sqrt(Math.random()) * rCone *)
rFinalFoliage(rs, rCone) == RMul(Sqrt(rs), rCone)

(* The body of generateOrnamentData's loop: one OrnamentData record. *)
ornamentRecord(type, dr) ==
  LET rChaos == RAdd(Q(20, 1), RMul(dr.rc, Q(15, 1)))
      hNorm  == dr.h
      y      == RMul(hNorm, Q(TREE_HEIGHT, 1))
      rCone  == RMul(RSub(One, hNorm), Q(TREE_RADIUS, 1))
      spiralAngle == RAdd(RMul(hNorm, Q(10, 1)), RMul(dr.a, Q(2, 1)))   \* in PI
      rFinal == rFinalOrnament(type, rCone)
  IN  [chaosPos  |-> chaosPoint(rChaos, dr.u, dr.v),
       targetPos |-> [x |-> RMul(CosPi(spiralAngle), rFinal),
                      y |-> y,
                      z |-> RMul(SinPi(spiralAngle), rFinal)],
       targetRot |-> [x |-> dr.rot, y |-> dr.rot, z |-> dr.rot],        \* in PI
       color     |-> IF type = "light" THEN "#ffccaa"
                     ELSE palette[Floor(RMul(dr.pal, Q(Len(palette), 1))) + 1],
       scale     |-> IF type = "light" THEN Q(1, 10)
                     ELSE IF type = "ball" THEN Q(25, 100) ELSE Q(35, 100),
       speed     |-> IF type = "light" THEN Q(2, 1)
                     ELSE IF type = "ball" THEN Q(15, 10) ELSE Q(8, 10)]

(* The body of the loop of TreeFoliage's geometry useMemo: the entries of  *)
(* chaos, target and rands for one index.                                  *)
foliageRecord(dr) ==
  LET r      == RMul(Q(25, 1), Cbrt(dr.rcb))
      hNorm  == dr.h
      y      == RMul(hNorm, Q(TREE_HEIGHT, 1))
      rCone  == RMul(RSub(One, hNorm), Q(TREE_RADIUS, 1))
      angle  == RMul(dr.a, Q(2, 1))                                     \* in PI
      rFinal == rFinalFoliage(dr.rs, rCone)
  IN  [chaosPos  |-> chaosPoint(r, dr.u, dr.v),
       targetPos |-> [x |-> RMul(CosPi(angle), rFinal),
                      y |-> y,
                      z |-> RMul(SinPi(angle), rFinal)],
       random    |-> dr.rnd]

(* A population: its length and the records of its first Tracked indices.  *)
(* Every index runs the same code; only the tracked ones are stored.       *)
population(length, rec) == [length |-> length, sample |-> [i \in 1..Tracked |-> rec]]

(* ---------------------------------------------------------------------- *)
(* State                                                                  *)
(* ---------------------------------------------------------------------- *)
VARIABLES
  treeState,                  \* App's useState, handed down as the treeState prop
  Ornaments_currentProgress,  \* Ornaments: currentProgress.current
  Foliage_currentProgress,    \* TreeFoliage: currentProgress.current
  uProgress, uTime,           \* the uniforms of the foliage material
  ballMatrix, boxMatrix, lightMatrix,  \* instance transform storage (tracked indices)
  balls, boxes, lights, foliage,       \* the static particle tables
  elapsedTime,                \* state.clock.elapsedTime
  delta,                      \* the delta of the latest frame
  frames,                     \* frames rendered so far
  run,                        \* what happened since the mode last changed
  genType, genCount, data     \* a generator call in progress: its arguments and its array

tables   == <<balls, boxes, lights, foliage>>
genVars  == <<genType, genCount, data>>
animVars == <<treeState, Ornaments_currentProgress, Foliage_currentProgress, uProgress,
              uTime, ballMatrix, boxMatrix, lightMatrix, elapsedTime, delta, frames, run>>
vars     == <<animVars, tables, genVars>>

CHAOS  == "CHAOS"
FORMED == "FORMED"

(* ---------------------------------------------------------------------- *)
(* The per-frame callbacks                                                *)
(* ---------------------------------------------------------------------- *)
(* Faulty variant of tTarget: the branches of the conditional swapped. *)
tTargetInverted(mode) == IF mode = FORMED THEN Zero ELSE One

(* treeState === TreeState.FORMED ? 1 : 0 *)
tTarget(mode) == IF mode = FORMED THEN One ELSE Zero

(* Ornaments: lerp(currentProgress.current, tTarget, delta * 0.8) *)
ornamentsStep(progress, mode, dt) == lerp(progress, tTarget(mode), RMul(dt, OrnamentsRate))

(* TreeFoliage: lerp(currentProgress.current, targetProgress, delta * 1.5) *)
foliageStep(progress, mode, dt) == lerp(progress, tTarget(mode), RMul(dt, FoliageRate))

(* Boxes: clamp((p - 0.1) * 1.1, 0, 1) *)
boxProgress(p) == clamp(RMul(RSub(p, Q(1, 10)), Q(11, 10)), Zero, One)

(* Faulty variant of lightProgress: the clamp left out. *)
lightProgressUnclamped(p) == RMul(p, Q(12, 10))

(* Lights: clamp(p * 1.2, 0, 1) *)
lightProgress(p) == clamp(RMul(p, Q(12, 10)), Zero, One)

(* Faulty variant of ballScale: only the first setScalar(scale * p). *)
ballScaleGrowing(scale, p, isForming) == RMul(scale, p)

(* Balls: setScalar(scale * p); then scale * p when leaving for chaos with *)
(* p < 0.1, else scale.                                                    *)
ballScale(scale, p, isForming) ==
  IF ~isForming /\ RLess(p, Q(1, 10)) THEN RMul(scale, p) ELSE scale

(* One ball instance.  t is the factor of lerpVectors(chaosPos, targetPos, *)
(* t); noise is the amplitude of the sin/cos offsets of x and y; spin is   *)
(* the angle added to targetRot.x and targetRot.y.                         *)
ballInstance(d, p, isForming, time) ==
  [t     |-> p,
   noise |-> IF RLess(p, Q(99, 100)) THEN RMul(Q(5, 100), RSub(One, p)) ELSE Zero,
   spin  |-> RMul(RSub(One, p), time),
   scale |-> ballScale(d.scale, p, isForming)]

(* One box instance.  spinX is the amplitude of the sin(time) term added   *)
(* to targetRot.x, spinY the angle added to targetRot.y.                   *)
boxInstance(d, progress, time) ==
  LET p == boxProgress(progress)
  IN  [t     |-> p,
       spinX |-> RSub(One, p),
       spinY |-> RMul(RMul(RSub(One, p), time), Q(1, 2)),
       scale |-> d.scale]

(* One light instance.  scale is data.scale, which the twinkle factor      *)
(* 0.8 + 0.4 * sin(time * 5 + i) multiplies; the rotation is (0, 0, 0).    *)
lightInstance(d, progress) ==
  [t |-> lightProgress(progress), scale |-> d.scale]

(* Faulty variant of frameTables: the balls' chaosPos lerped in place. *)
frameTablesInPlace(p) ==
  /\ balls' = [balls EXCEPT !.sample =
                 [i \in DOMAIN balls.sample |->
                    [balls.sample[i] EXCEPT !.chaosPos =
                       [x |-> lerp(@.x, balls.sample[i].targetPos.x, p),
                        y |-> lerp(@.y, balls.sample[i].targetPos.y, p),
                        z |-> lerp(@.z, balls.sample[i].targetPos.z, p)]]]]
  /\ UNCHANGED <<boxes, lights, foliage>>

(* What a frame does to the particle tables: nothing. *)
frameTables(p) == UNCHANGED tables

(* TreeFoliage's callback: the progress step and the two uniforms.  The    *)
(* material ref is set from the mount on.                                  *)
TreeFoliage_useFrame(dt) ==
  /\ Foliage_currentProgress' = foliageStep(Foliage_currentProgress, treeState, dt)
  /\ uProgress' = Foliage_currentProgress'
  /\ uTime' = elapsedTime'

(* Ornaments' callback: the progress step, then every instance of the      *)
(* three meshes.  The mesh refs are set from the mount on.                 *)
Ornaments_useFrame(dt) ==
  LET isForming == treeState = FORMED
      p == ornamentsStep(Ornaments_currentProgress, treeState, dt)
      time == elapsedTime'
  IN  /\ Ornaments_currentProgress' = p
      /\ ballMatrix' = [i \in DOMAIN balls.sample |->
                          ballInstance(balls.sample[i], p, isForming, time)]
      /\ boxMatrix' = [i \in DOMAIN boxes.sample |-> boxInstance(boxes.sample[i], p, time)]
      /\ lightMatrix' = [i \in DOMAIN lights.sample |-> lightInstance(lights.sample[i], p)]
      /\ frameTables(p)

(* The record of the current run: the frames since the mode last changed   *)
(* (or since the mount), the progress values the run started from, the     *)
(* delta of its first frame and whether every frame of it had that delta.  *)
runStart == [n |-> 0, startO |-> Ornaments_currentProgress,
             startF |-> Foliage_currentProgress, dt |-> Zero, fixed |-> TRUE]

runAfter(dt) == [run EXCEPT !.n = @ + 1,
                            !.dt = IF run.n = 0 THEN dt ELSE @,
                            !.fixed = @ /\ (run.n = 0 \/ run.dt = dt)]

(* One rendered frame: the clock advances by delta and the render loop     *)
(* calls both callbacks with it.                                           *)
useFrame(dt, limit) ==
  /\ frames < limit
  /\ frames' = frames + 1
  /\ delta' = dt
  /\ elapsedTime' = RAdd(elapsedTime, dt)
  /\ TreeFoliage_useFrame(dt)
  /\ Ornaments_useFrame(dt)
  /\ run' = runAfter(dt)
  /\ UNCHANGED <<treeState, genVars>>

(* Faulty variant of toggleState: the transition restarts from the old end. *)
toggleStateReset ==
  /\ treeState' = IF treeState = CHAOS THEN FORMED ELSE CHAOS
  /\ Ornaments_currentProgress' = tTarget(treeState)
  /\ Foliage_currentProgress' = tTarget(treeState)
  /\ run' = [runStart EXCEPT !.startO = tTarget(treeState), !.startF = tTarget(treeState)]
  /\ UNCHANGED <<uProgress, uTime, ballMatrix, boxMatrix, lightMatrix, elapsedTime,
                 delta, frames, tables, genVars>>

(* App.toggleState, with the re-render that hands the new treeState to     *)
(* both components.                                                        *)
toggleState ==
  /\ treeState' = IF treeState = CHAOS THEN FORMED ELSE CHAOS
  /\ run' = runStart
  /\ UNCHANGED <<Ornaments_currentProgress, Foliage_currentProgress, uProgress, uTime,
                 ballMatrix, boxMatrix, lightMatrix, elapsedTime, delta, frames,
                 tables, genVars>>

(* ---------------------------------------------------------------------- *)
(* The generators, one loop iteration at a time                           *)
(* ---------------------------------------------------------------------- *)
generateOrnamentData ==
  /\ genType \in Types
  /\ Len(data) < genCount
  /\ \E dr \in DrawSet : data' = Append(data, ornamentRecord(genType, dr))
  /\ UNCHANGED <<genType, genCount, animVars, tables>>

generateFoliage ==
  /\ genType = "foliage"
  /\ Len(data) < genCount
  /\ \E dr \in DrawSet : data' = Append(data, foliageRecord(dr))
  /\ UNCHANGED <<genType, genCount, animVars, tables>>

(* ---------------------------------------------------------------------- *)
(* Specifications                                                         *)
(* ---------------------------------------------------------------------- *)
(* The draws behind the tables of an animation session. *)
InitDraws == {dr \in DrawSet : dr.h = Q(1, 4) /\ dr.a = Zero /\ dr.rs = Q(1, 4)}

(* The mounted scene before its first frame. *)
Mounted ==
  /\ treeState = CHAOS
  /\ Ornaments_currentProgress = Zero
  /\ Foliage_currentProgress = Zero
  /\ uProgress = Zero
  /\ uTime = Zero
  /\ ballMatrix = << >>
  /\ boxMatrix = << >>
  /\ lightMatrix = << >>
  /\ elapsedTime = Zero
  /\ delta = Zero
  /\ frames = 0
  /\ run = [n |-> 0, startO |-> Zero, startF |-> Zero, dt |-> Zero, fixed |-> TRUE]
  /\ \E dr \in InitDraws :
       /\ balls = population(BALL_COUNT, ornamentRecord("ball", dr))
       /\ boxes = population(BOX_COUNT, ornamentRecord("box", dr))
       /\ lights = population(LIGHT_COUNT, ornamentRecord("light", dr))
       /\ foliage = population(COUNT, foliageRecord(dr))

Init ==
  /\ Mounted
  /\ genType = "none"
  /\ genCount = 0
  /\ data = << >>

Next ==
  \/ toggleState
  \/ \E dt \in DtSet : useFrame(dt, MaxFrames)

Spec == Init /\ [][Next]_vars

(* A session whose frames all last one second. *)
NextRun ==
  \/ toggleState
  \/ useFrame(One, MaxRunFrames)

SpecRun == Init /\ [][NextRun]_vars

(* A generator called with a count and a class. *)
InitGen ==
  /\ Mounted
  /\ genType \in Types \cup {"foliage"}
  /\ genCount \in 0..MaxCount
  /\ data = << >>

NextGen ==
  \/ generateOrnamentData
  \/ generateFoliage

SpecGen == InitGen /\ [][NextGen]_vars

(* ---------------------------------------------------------------------- *)
(* Derived values                                                         *)
(* ---------------------------------------------------------------------- *)
(* Vector3.lerpVectors(v1, v2, alpha): v1 + (v2 - v1) * alpha per axis. *)
lerpVectors(v1, v2, alpha) ==
  [x |-> RAdd(v1.x, RMul(RSub(v2.x, v1.x), alpha)),
   y |-> RAdd(v1.y, RMul(RSub(v2.y, v1.y), alpha)),
   z |-> RAdd(v1.z, RMul(RSub(v2.z, v1.z), alpha))]

(* The position written for box i by the latest frame. *)
boxPosition(i) ==
  lerpVectors(boxes.sample[i].chaosPos, boxes.sample[i].targetPos, boxMatrix[i].t)

InUnit(p) == RLeq(Zero, p) /\ RLeq(p, One)

(* |progress - target| *)
Distance(p, mode) == RAbs(RSub(p, tTarget(mode)))

(* Progress values at which the remaps are compared: below 0, the ends,    *)
(* the kinks of the two remaps (1/10 and 5/6), the middle, above 1.        *)
Samples == {Q(-1, 4), Zero, Q(1, 10), Q(1, 2), Q(5, 6), One, Q(5, 4)}

(* A frame has run since the mode last changed: the instance storage and   *)
(* the uniforms are those the latest frame wrote under the current mode.   *)
FrameSinceToggle == run.n >= 1

IsFrame == frames' = frames + 1

(* targetPos is in the cone widened by the factor k: 0 <= y <= TREE_HEIGHT *)
(* and x^2 + z^2 <= (k * (1 - y / TREE_HEIGHT) * TREE_RADIUS)^2.           *)
InCone(pos, k) ==
  LET r == RMul(k, RMul(RSub(One, RMul(pos.y, Q(1, TREE_HEIGHT))), Q(TREE_RADIUS, 1)))
  IN  /\ RLeq(Zero, pos.y)
      /\ RLeq(pos.y, Q(TREE_HEIGHT, 1))
      /\ RLeq(RAdd(RMul(pos.x, pos.x), RMul(pos.z, pos.z)), RMul(r, r))

(* ---------------------------------------------------------------------- *)
(* Claims                                                                 *)
(* ---------------------------------------------------------------------- *)

(* C1: in every reachable state the progress scalar of Ornaments and the   *)
(* progress scalar of TreeFoliage lie in [0, 1].                           *)
C1_ProgressInUnitInterval ==
  /\ InUnit(Ornaments_currentProgress)
  /\ InUnit(Foliage_currentProgress)

(* C2: in a run that started at the end opposite to the target, with the   *)
(* mode held and every frame of the same positive delta, each frame taken  *)
(* while progress differs from the target strictly decreases               *)
(* |progress - target|, for both animators.                                *)
C2_FrameStrictlyCloser ==
  [][ ( /\ IsFrame
        /\ treeState' = treeState
        /\ RLess(Zero, delta')
        /\ run'.fixed )
      =>
      ( /\ ( /\ run.startO = RSub(One, tTarget(treeState))
             /\ Ornaments_currentProgress # tTarget(treeState) )
           => RLess(Distance(Ornaments_currentProgress', treeState),
                    Distance(Ornaments_currentProgress, treeState))
        /\ ( /\ run.startF = RSub(One, tTarget(treeState))
             /\ Foliage_currentProgress # tTarget(treeState) )
           => RLess(Distance(Foliage_currentProgress', treeState),
                    Distance(Foliage_currentProgress, treeState)) ) ]_vars

(* C3: a frame whose delta is 0 leaves both progress scalars as they were, *)
(* whatever their value and the mode.                                      *)
C3_ZeroDeltaKeepsProgress ==
  [][ (IsFrame /\ delta' = Zero)
      => /\ Ornaments_currentProgress' = Ornaments_currentProgress
         /\ Foliage_currentProgress' = Foliage_currentProgress ]_vars

(* C3 witness: progress 1, the mode just flipped to Chaos, and the one     *)
(* frame since then had delta 0.                                           *)
C3_Witness ==
  /\ treeState = CHAOS
  /\ run.n = 1
  /\ delta = Zero
  /\ run.startO = One
  /\ Ornaments_currentProgress = One

(* C4: the box remap maps progress 0 to 0 and progress 1 to 1, is          *)
(* non-decreasing, and stays in [0, 1]; so when the latest frame left      *)
(* progress at 1, every box is at its target position with its target      *)
(* orientation.                                                            *)
C4_BoxRemap ==
  LET p == Ornaments_currentProgress
  IN  /\ InUnit(boxProgress(p))
      /\ p = Zero => boxProgress(p) = Zero
      /\ p = One => boxProgress(p) = One
      /\ \A a \in Samples :
           /\ RLeq(a, p) => RLeq(boxProgress(a), boxProgress(p))
           /\ RLeq(p, a) => RLeq(boxProgress(p), boxProgress(a))
      /\ (FrameSinceToggle /\ p = One) =>
           \A i \in DOMAIN boxMatrix :
             /\ boxPosition(i) = boxes.sample[i].targetPos
             /\ boxMatrix[i].spinX = Zero
             /\ boxMatrix[i].spinY = Zero

(* C5: the interpolation factor stored for every light is                  *)
(* clamp(progress * 1.2, 0, 1) of the current progress: it lies in [0, 1], *)
(* is at least the progress when the progress is in [0, 1), is 1 when the  *)
(* progress is 1, and is ordered like the progress against the remap of    *)
(* every sample value.                                                     *)
C5_LightRemap ==
  LET p == Ornaments_currentProgress
  IN  /\ \A a \in Samples :
           /\ InUnit(lightProgress(a))
           /\ (RLeq(Zero, a) /\ RLess(a, One)) => RLeq(a, lightProgress(a))
      /\ lightProgress(One) = One
      /\ \A i \in DOMAIN lightMatrix :
           LET q == lightMatrix[i].t
           IN  /\ InUnit(q)
               /\ (RLeq(Zero, p) /\ RLess(p, One)) => RLeq(p, q)
               /\ p = One => q = One
               /\ \A a \in Samples :
                    /\ RLeq(a, p) => RLeq(lightProgress(a), q)
                    /\ RLeq(p, a) => RLeq(q, lightProgress(a))

(* C5 witness: a frame has brought the progress to 1 and the lights to     *)
(* factor 1.                                                               *)
C5_Witness ==
  /\ frames >= 1
  /\ Ornaments_currentProgress = One
  /\ lightMatrix # << >>
  /\ \A i \in DOMAIN lightMatrix : lightMatrix[i].t = One


(* C6: every record of every class has its targetPos inside the tree cone. *)
C6_TargetInCone ==
  \A i \in DOMAIN data : InCone(data[i].targetPos, One)

(* C6, amended: foliage, ball and box records have their targetPos inside  *)
(* the tree cone; light records have it inside the cone widened by 1.05.   *)
C6_TargetInConeByClass ==
  \A i \in DOMAIN data :
    InCone(data[i].targetPos, IF genType = "light" THEN Q(105, 100) ELSE One)

(* C6 witness: a light table has been generated in full, and a record of   *)
(* it lies outside the cone proper.                                        *)
C6_Witness ==
  /\ genType = "light"
  /\ genCount >= 1
  /\ Len(data) = genCount
  /\ \E i \in DOMAIN data : ~InCone(data[i].targetPos, One)

(* C7: in a run that starts at progress 0 with the mode Formed and whose   *)
(* frames all have delta 1, the foliage progress is above 0.99 when nine   *)
(* frames have run, that is before the 10th update.                        *)
C7_NearFormedBeforeTenth ==
  ( /\ treeState = FORMED
    /\ run.startF = Zero
    /\ run.fixed
    /\ run.dt = One
    /\ run.n = 9 )
  => RLess(Q(99, 100), Foliage_currentProgress)

(* C7 witness: the ninth frame of such a run has been rendered. *)
C7_Witness ==
  /\ treeState = FORMED
  /\ run.startF = Zero
  /\ run.fixed
  /\ run.dt = One
  /\ run.n = 9
  /\ uProgress = Foliage_currentProgress

(* C8: no step changes a particle table or the length of a population,     *)
(* and a frame leaves the mode alone.                                      *)
C8_TablesNeverChange ==
  [][ /\ balls' = balls
      /\ boxes' = boxes
      /\ lights' = lights
      /\ foliage' = foliage
      /\ balls'.length = BALL_COUNT
      /\ boxes'.length = BOX_COUNT
      /\ lights'.length = LIGHT_COUNT
      /\ foliage'.length = COUNT
      /\ IsFrame => treeState' = treeState ]_vars

(* C8 witness: frames have run in both modes and have written the instance *)
(* storage and the uniforms.                                               *)
C8_Witness ==
  /\ frames >= 2
  /\ treeState = CHAOS
  /\ FrameSinceToggle
  /\ ballMatrix # << >>
  /\ Ornaments_currentProgress # Zero
  /\ uTime # Zero

C10_ToggleRedirects ==
  /\ [](ENABLED toggleState)
  /\ [][ /\ treeState' # treeState =>
              /\ Ornaments_currentProgress' = Ornaments_currentProgress
              /\ Foliage_currentProgress' = Foliage_currentProgress
         /\ IsFrame =>
              LET tgt == IF treeState = FORMED THEN One ELSE Zero
                  pO  == Ornaments_currentProgress
                  pF  == Foliage_currentProgress
              IN  /\ Ornaments_currentProgress' =
                       RAdd(pO, RMul(RSub(tgt, pO), RMul(Q(4, 5), delta')))
                  /\ Foliage_currentProgress' =
                       RAdd(pF, RMul(RSub(tgt, pF), RMul(Q(3, 2), delta')))
                  /\ RLess(Zero, delta') =>
                       /\ RLess(pO, tgt) => RLess(pO, Ornaments_currentProgress')
                       /\ RLess(tgt, pO) => RLess(Ornaments_currentProgress', pO)
                       /\ RLess(pF, tgt) => RLess(pF, Foliage_currentProgress')
                       /\ RLess(tgt, pF) => RLess(Foliage_currentProgress', pF) ]_vars

(* C10 witness: the mode was flipped to Chaos in mid-transition and the    *)
(* first frame since, of positive delta, took the progress down from where *)
(* the flip found it.                                                      *)
C10_Witness ==
  /\ treeState = CHAOS
  /\ run.n = 1
  /\ RLess(Zero, delta)
  /\ RLess(Zero, run.startO) /\ RLess(run.startO, One)
  /\ RLess(Ornaments_currentProgress, run.startO)
  /\ RLess(Zero, run.startF) /\ RLess(run.startF, One)
  /\ RLess(Foliage_currentProgress, run.startF)

(* C11: in every frame the interpolation factors written for the boxes,    *)
(* the balls and the lights from the one Ornaments progress are ordered    *)
(* box <= ball <= light.                                                   *)
C11_StaggeredOrder ==
  \A i \in DOMAIN boxMatrix : \A j \in DOMAIN ballMatrix : \A k \in DOMAIN lightMatrix :
    /\ boxMatrix[i].t = boxProgress(Ornaments_currentProgress)
    /\ ballMatrix[j].t = Ornaments_currentProgress
    /\ lightMatrix[k].t = lightProgress(Ornaments_currentProgress)
    /\ RLeq(boxMatrix[i].t, ballMatrix[j].t)
    /\ RLeq(ballMatrix[j].t, lightMatrix[k].t)

====
